---- MODULE Spec2Model ----
(***************************************************************************)
(* Agent orchestrator: the lifecycle polling engine, the agent plugins'    *)
(* activity detection and the CLI commands that drive them.                *)
(*                                                                         *)
(* The agent plugins (codex, opencode, aider), the shared liveness helper  *)
(* isAgentProcessRunning, the CLI plugin table (getAgent) and the          *)
(* `ao lifecycle` commands are translated from their sources.  The         *)
(* lifecycle manager itself (createLifecycleManager of the core package)   *)
(* is modelled from its specification, sections 4.4 and 5.                 *)
(***************************************************************************)
EXTENDS Integers, Sequences, FiniteSets, TLC

----------------------------------------------------------------------------
(* Bounds of the model *)

\* number of check completions a behaviour may contain (the clock's range)
MaxClock == 3

\* number of repeating timers a behaviour may schedule
MaxStarts == 2

\* largest value of the webhook notifier's retries option
MaxRetries == 2

\* largest number of CI checks `gh pr checks` reports for a pull request
MaxChecks == 2

\* number of `ao lifecycle check` runs for a session id that does not exist
MaxCliRuns == 2

----------------------------------------------------------------------------
(* Program constants *)

\* { timeout: 30_000 } on both execFileAsync calls of isAgentProcessRunning
LivenessTimeoutMs == 30000

\* no timeout option on execFileAsync in the aider plugin: 0 stands for "none"
AiderTimeoutMs == 0

\* consecutive agent-plugin failures after which a session is escalated
FailureLimit == 3

----------------------------------------------------------------------------
(* Data model *)

SessionIds == {"s1", "s2"}

\* ActivityState lattice; "unknown" is the null result of getActivityState
KnownStates == {"idle", "active", "exited"}
ActivityStates == KnownStates \cup {"unknown"}

\* RuntimeHandle.runtimeName; "none" is a session without runtimeHandle
HandleKinds == {"none", "tmux", "process"}

\* agent names a project may configure; "" is "not set" (falls back to the default)
ProjectAgents == {"", "codex", "aider", "opencode"}

\* values config.defaults.agent takes in the model
DefaultAgents == {"claude-code"}

\* the (project agent, runtime handle) pairs sessions are drawn from: every
\* agent in src/ with every kind of handle, one session of the default agent,
\* one of an agent the CLI does not register
Profiles ==
    ({"codex", "aider"} \X HandleKinds) \cup {<<"", "tmux">>, <<"opencode", "tmux">>}

\* What the outside world answers to the invocations of one liveness check.
\*   tmux handle: tmux list-panes, then ps
\*   other handles: process.kill(pid, 0) on handle.data.pid
TmuxAnswers == {"tmux_error", "tmux_hang", "tmux_empty",
                "ps_error", "ps_hang", "ps_nomatch", "ps_match"}
PidAnswers == {"pid_none", "pid_dead", "pid_eperm", "pid_alive"}
\* What an agent plugin whose source is not at hand (claude-code) may return
OpaqueAnswers == {"cc_idle", "cc_active", "cc_exited", "cc_null", "cc_raise"}
NoAnswer == "none"

HangAnswers == {"tmux_hang", "ps_hang"}
FailureAnswers == {"tmux_error", "ps_error"}

----------------------------------------------------------------------------
(* Liveness helpers and agent plugins *)

\* promisify(execFile)(...) with { timeout }: an invocation that fails rejects;
\* one that hangs is killed and rejects when a timeout is set, and never
\* settles when none is set.
execFileAsync(failed, hung, timeoutMs) ==
    IF failed THEN "rejected"
    ELSE IF hung THEN (IF timeoutMs > 0 THEN "rejected" ELSE "never")
    ELSE "resolved"

\* an isAgentProcessRunning whose invocations have no timeout
isAgentProcessRunning_NoTimeout(kind, answer) ==
    IF kind = "tmux"
    THEN LET tmux == execFileAsync(answer = "tmux_error", answer = "tmux_hang", 0)
         IN  IF tmux = "never" THEN "never"
             ELSE IF tmux = "rejected" THEN "false"
             ELSE IF answer = "tmux_empty" THEN "false"
             ELSE LET ps == execFileAsync(answer = "ps_error", answer = "ps_hang", 0)
                  IN  IF ps = "never" THEN "never"
                      ELSE IF ps = "rejected" THEN "false"
                      ELSE IF answer = "ps_match" THEN "true"
                      ELSE "false"
    ELSE IF answer = "pid_none" THEN "false"
         ELSE IF answer = "pid_alive" THEN "true"
         ELSE IF answer = "pid_eperm" THEN "true"
         ELSE "false"

\* isAgentProcessRunning(handle, processName): "true", "false", or "never"
\* when the promise does not settle.  The outer catch turns every rejection
\* into false.
isAgentProcessRunning(kind, answer) ==
    IF kind = "tmux"
    THEN LET tmux == execFileAsync(answer = "tmux_error", answer = "tmux_hang",
                                   LivenessTimeoutMs)
         IN  IF tmux = "never" THEN "never"
             ELSE IF tmux = "rejected" THEN "false"
             ELSE IF answer = "tmux_empty" THEN "false"
             ELSE LET ps == execFileAsync(answer = "ps_error", answer = "ps_hang",
                                          LivenessTimeoutMs)
                  IN  IF ps = "never" THEN "never"
                      ELSE IF ps = "rejected" THEN "false"
                      ELSE IF answer = "ps_match" THEN "true"
                      ELSE "false"
    ELSE IF answer = "pid_none" THEN "false"
         ELSE IF answer = "pid_alive" THEN "true"
         ELSE IF answer = "pid_eperm" THEN "true"
         ELSE "false"

\* aider's own isProcessRunning: no timeout on execFileAsync, and EPERM from
\* process.kill counts as not running.
isProcessRunning_aider(kind, answer) ==
    IF kind = "tmux"
    THEN LET tmux == execFileAsync(answer = "tmux_error", answer = "tmux_hang",
                                   AiderTimeoutMs)
         IN  IF tmux = "never" THEN "never"
             ELSE IF tmux = "rejected" THEN "false"
             ELSE IF answer = "tmux_empty" THEN "false"
             ELSE LET ps == execFileAsync(answer = "ps_error", answer = "ps_hang",
                                          AiderTimeoutMs)
                  IN  IF ps = "never" THEN "never"
                      ELSE IF ps = "rejected" THEN "false"
                      ELSE IF answer = "ps_match" THEN "true"
                      ELSE "false"
    ELSE IF answer = "pid_none" THEN "false"
         ELSE IF answer = "pid_alive" THEN "true"
         ELSE "false"

\* a codex plugin that takes a running process for an active session
getActivityState_codex_Guess(kind, answer) ==
    IF kind = "none" THEN "exited"
    ELSE LET running == isAgentProcessRunning(kind, answer)
         IN  IF running = "never" THEN "never"
             ELSE IF running = "false" THEN "exited"
             ELSE "active"

\* codex: exited without handle or process, otherwise null (unknown)
getActivityState_codex(kind, answer) ==
    IF kind = "none" THEN "exited"
    ELSE LET running == isAgentProcessRunning(kind, answer)
         IN  IF running = "never" THEN "never"
             ELSE IF running = "false" THEN "exited"
             ELSE "unknown"

\* opencode: the same shape as codex
getActivityState_opencode(kind, answer) ==
    IF kind = "none" THEN "exited"
    ELSE LET running == isAgentProcessRunning(kind, answer)
         IN  IF running = "never" THEN "never"
             ELSE IF running = "false" THEN "exited"
             ELSE "unknown"

\* an aider plugin that reports active for every session that has a handle
detectActivity_aider_NoLiveness(kind, answer) ==
    IF kind = "none" THEN "exited" ELSE "active"

\* aider: exited without handle or process, otherwise active
detectActivity_aider(kind, answer) ==
    IF kind = "none" THEN "exited"
    ELSE LET running == isProcessRunning_aider(kind, answer)
         IN  IF running = "never" THEN "never"
             ELSE IF running = "false" THEN "exited"
             ELSE "active"

\* An agent plugin known only through the Agent capability: any state of the
\* lattice, null, or an exception.
getActivityState_opaque(answer) ==
    CASE answer = "cc_idle" -> "idle"
      [] answer = "cc_active" -> "active"
      [] answer = "cc_exited" -> "exited"
      [] answer = "cc_null" -> "unknown"
      [] OTHER -> "raise"

\* a getAgent that falls back to a registered plugin instead of throwing
getAgent_Fallback(agentOfProject, agentDefault) ==
    LET agentName == IF agentOfProject # "" THEN agentOfProject ELSE agentDefault
    IN  IF agentName \in {"claude-code", "codex", "aider"} THEN agentName
        ELSE "claude-code"

\* agentPlugins: the agent plugins the CLI registers
agentPlugins == {"claude-code", "codex", "aider"}

\* getAgent(config, projectId): the plugin name, or "throw" for
\* Error("Unknown agent plugin: ...")
getAgent(agentOfProject, agentDefault) ==
    LET agentName == IF agentOfProject # "" THEN agentOfProject ELSE agentDefault
    IN  IF agentName \in agentPlugins THEN agentName ELSE "throw"

\* this.isProcessRunning(handle) of the plugin
isProcessRunning(agent, kind, answer) ==
    IF agent = "aider" THEN isProcessRunning_aider(kind, answer)
    ELSE isAgentProcessRunning(kind, answer)

\* the activity query of the resolved plugin
queryActivity(agent, kind, answer) ==
    CASE agent = "codex" -> getActivityState_codex(kind, answer)
      [] agent = "opencode" -> getActivityState_opencode(kind, answer)
      [] agent = "aider" -> detectActivity_aider(kind, answer)
      [] OTHER -> getActivityState_opaque(answer)

\* the answers the outside world can give to the invocations of one check
AnswersFor(agent, kind) ==
    IF agent = "throw" THEN {NoAnswer}
    ELSE IF agent \notin {"codex", "opencode", "aider"} THEN OpaqueAnswers
    ELSE IF kind = "none" THEN {NoAnswer}
    ELSE IF kind = "tmux" THEN TmuxAnswers
    ELSE PidAnswers

----------------------------------------------------------------------------
(* The interval option of `ao lifecycle start` *)

\* the smallest interval the command accepts
MinIntervalMs == 1000

\* the decimal digits, Digits[i] being i - 1
Digits == <<"0", "1", "2", "3", "4", "5", "6", "7", "8", "9">>

isDigit(ch) == \E i \in 1..Len(Digits) : Digits[i] = ch

digitValue(ch) == (CHOOSE i \in 1..Len(Digits) : Digits[i] = ch) - 1

\* the string without its leading white space
RECURSIVE trimStart(_)
trimStart(str) ==
    IF str # << >> /\ Head(str) = " " THEN trimStart(Tail(str)) ELSE str

\* the value of the longest prefix of digits, read after the digits in acc
RECURSIVE leadingDigits(_, _)
leadingDigits(str, acc) ==
    IF str = << >> \/ ~isDigit(Head(str)) THEN acc
    ELSE leadingDigits(Tail(str), acc * 10 + digitValue(Head(str)))

\* parseInt(str, 10): white space is skipped, a sign is read, then digits up
\* to the first character that is none; NaN when there is no digit
parseInt(str) ==
    LET s == trimStart(str)
        signed == s # << >> /\ Head(s) \in {"-", "+"}
        body == IF signed THEN Tail(s) ELSE s
    IN  IF body = << >> \/ ~isDigit(Head(body)) THEN [nan |-> TRUE, value |-> 0]
        ELSE [nan |-> FALSE,
              value |-> IF signed /\ Head(s) = "-" THEN 0 - leadingDigits(body, 0)
                        ELSE leadingDigits(body, 0)]

\* the strings -i is given in the model: the default, the limit and one below
\* it, a negative number, no number at all, nothing, a number with a unit, in
\* exponent notation, with a fraction, and after a blank
IntervalOptions ==
    { <<"3", "0", "0", "0", "0">>, <<"1", "0", "0", "0">>, <<"9", "9", "9">>,
      <<"-", "5", "0", "0", "0">>, <<"a", "b", "c">>, << >>,
      <<"1", "5", "0", "0", "m", "s">>, <<"1", "e", "4">>,
      <<"2", "0", "0", "0", ".", "5">>, <<" ", "2", "0", "0", "0">> }

\* a check that lets every number through
validInterval_AnyNumber(intervalMs) == ~intervalMs.nan

\* !(isNaN(intervalMs) || intervalMs < 1000)
validInterval(intervalMs) == ~(intervalMs.nan \/ intervalMs.value < MinIntervalMs)

----------------------------------------------------------------------------
(* Notifier plugins and the helpers of `ao notify test` *)

\* the notifier names of the model's configurations
NotifierNames == {"desktop", "hook", "chat", "pager"}

\* config.notifiers[name].plugin; "pagerduty" is a plugin the CLI does not have
NotifierPlugin(name) ==
    CASE name = "desktop" -> "desktop"
      [] name = "hook" -> "webhook"
      [] name = "chat" -> "slack"
      [] OTHER -> "pagerduty"

\* Object.keys(config.notifiers) for the configured names
ConfigOrder == <<"desktop", "hook", "chat", "pager">>

\* the keys of config.notificationRouting, in the order of the object
RoutingLevels == <<"urgent", "action">>

\* the lists a routing level is drawn from
RoutingLists == {<< >>, <<"desktop">>, <<"hook", "desktop">>, <<"pager", "hook">>}

\* the lists config.defaults.notifiers is drawn from
DefaultLists == {<< >>, <<"desktop">>, <<"hook">>}

\* the values of -n and -p the command is run with
NotifierOptions == {"", "hook", "pager"}
PriorityOptions == {"action", "urgent", "bogus"}

\* what fetch does: a 2xx response, another response, or an exception
FetchResults == {"ok", "status", "throw"}

VALID_PRIORITIES == {"urgent", "action", "warning", "info"}

\* notifierPlugins: the notifier plugins the CLI registers
notifierPlugins == {"desktop", "slack", "webhook", "composio"}

\* getNotifier(name): the plugin, or "throw" for Error("Unknown notifier plugin")
getNotifier(name) == IF name \in notifierPlugins THEN name ELSE "throw"

\* (config?.retries as number) ?? 2
DefaultRetries == 2

\* the elements of a list
Range(list) == {list[i] : i \in 1..Len(list)}

\* names.add(n) for every n of list, in order: a Set keeps the first insertion
RECURSIVE addAll(_, _)
addAll(names, list) ==
    IF list = << >> THEN names
    ELSE addAll(IF Head(list) \in Range(names) THEN names
                ELSE Append(names, Head(list)),
                Tail(list))

\* the names added for every level of the routing table, in order
RECURSIVE addLevels(_, _, _)
addLevels(names, table, i) ==
    IF i > Len(RoutingLevels) THEN names
    ELSE addLevels(addAll(names, table[RoutingLevels[i]]), table, i + 1)

\* Object.keys(config.notifiers)
configuredNames(notifiers) == SelectSeq(ConfigOrder, LAMBDA n : n \in notifiers)

\* a resolveNotifierNames that collects the names in an array, duplicates kept
resolveNotifierNames_NoSet(notifiers, table, defaults, filterName) ==
    IF filterName # ""
    THEN [ok |-> filterName \in notifiers, names |-> <<filterName>>]
    ELSE LET names == table["urgent"] \o table["action"] \o defaults
         IN  [ok |-> TRUE,
              names |-> IF names = << >> THEN configuredNames(notifiers) ELSE names]

\* a resolveNotifierNames that does not look the -n name up
resolveNotifierNames_NoLookup(notifiers, table, defaults, filterName) ==
    IF filterName # ""
    THEN [ok |-> TRUE, names |-> <<filterName>>]
    ELSE LET names == addAll(addLevels(<< >>, table, 1), defaults)
         IN  [ok |-> TRUE,
              names |-> IF names = << >> THEN configuredNames(notifiers) ELSE names]

\* resolveNotifierNames(config, filterName): ok is FALSE when it throws
resolveNotifierNames(notifiers, table, defaults, filterName) ==
    IF filterName # ""
    THEN [ok |-> filterName \in notifiers, names |-> <<filterName>>]
    ELSE LET names == addAll(addLevels(<< >>, table, 1), defaults)
         IN  [ok |-> TRUE,
              names |-> IF names = << >> THEN configuredNames(notifiers) ELSE names]

\* a retry loop that counts the first attempt as a retry
postWithRetry_OffByOne(attempt, retries, response) ==
    IF response = "ok" THEN "return"
    ELSE IF attempt + 1 < retries THEN "retry"
    ELSE "throw"

\* one round of the loop of postWithRetry, attempt counted from 0: return on
\* response.ok, otherwise go round again while attempt < retries, then throw
postWithRetry(attempt, retries, response) ==
    IF response = "ok" THEN "return"
    ELSE IF attempt < retries THEN "retry"
    ELSE "throw"

\* the methods of the Notifier a webhook create() returns
WebhookMethods == {"notify", "notifyWithActions", "post"}

\* create(config) of the webhook plugin: the url and retries of the closure
create(urlGiven, retriesSet, given) ==
    [url |-> urlGiven, retries |-> IF retriesSet THEN given ELSE DefaultRetries]

\* serializeEvent(event): event.timestamp.toISOString() throws a RangeError
\* for an invalid Date
serializeEvent(timeValid) == IF timeValid THEN "payload" ELSE "throw"

\* a webhook whose post does not look at the url
callWebhook_PostUnguarded(method, urlSet, timeValid) ==
    IF ~urlSet /\ method # "post" THEN "return"
    ELSE IF method # "post" /\ serializeEvent(timeValid) = "throw" THEN "throw"
    ELSE "post"

\* notify, notifyWithActions and post up to their call of postWithRetry:
\* "return" without url, "throw" when the payload cannot be built, else "post"
callWebhook(method, urlSet, timeValid) ==
    IF ~urlSet THEN "return"
    ELSE IF method # "post" /\ serializeEvent(timeValid) = "throw" THEN "throw"
    ELSE "post"

\* what a method resolves to: post returns null, the others nothing
resultOf(method) == IF method = "post" THEN "null" ELSE "void"

\* a loop that returns at the first name that has no config
queueAfter_StopOnSkip(q, line) == IF line = "skip" THEN << >> ELSE Tail(q)

\* a loop that gives up at the first notifier that fails
queueAfter_StopOnFailure(q, line) == IF line = "FAIL" THEN << >> ELSE Tail(q)

\* the loop goes on with the next name whatever the line it printed
queueAfter(q, line) == Tail(q)

\* allPassed after a line
passedAfter(passed, line) == passed /\ line # "FAIL"

\* config.notifiers[name].plugin is a plugin the CLI has: createNotifier returns
createNotifier(name) == getNotifier(NotifierPlugin(name)) # "throw"

\* one more call counted for name
Count(calls, name) == [calls EXCEPT ![name] = @ + 1]

----------------------------------------------------------------------------
(* SCM plugin (GitHub): CI summary and merge readiness *)

\* String.prototype.toUpperCase on the values of the model
toUpperCase(str) ==
    CASE str = "approved" -> "APPROVED"
      [] str = "success" -> "SUCCESS"
      [] str = "failure" -> "FAILURE"
      [] str = "pending" -> "PENDING"
      [] OTHER -> str

\* the checks `gh pr checks --json state,conclusion` may report
RawChecks ==
    {[state |-> "PENDING", conclusion |-> ""],
     [state |-> "pending", conclusion |-> ""],
     [state |-> "IN_PROGRESS", conclusion |-> ""],
     [state |-> "COMPLETED", conclusion |-> "SUCCESS"],
     [state |-> "COMPLETED", conclusion |-> "success"],
     [state |-> "COMPLETED", conclusion |-> "FAILURE"],
     [state |-> "COMPLETED", conclusion |-> "TIMED_OUT"],
     [state |-> "COMPLETED", conclusion |-> "SKIPPED"],
     [state |-> "COMPLETED", conclusion |-> "CANCELLED"]}

\* the lists of at most n checks
CheckLists(n) == UNION {[1..k -> RawChecks] : k \in 0..n}

\* reviewDecision, mergeable and isDraft of `gh pr view`; "" is null
ReviewDecisions == {"APPROVED", "approved", "CHANGES_REQUESTED", "REVIEW_REQUIRED", ""}
Mergeables == {"MERGEABLE", "CONFLICTING", "UNKNOWN"}

\* CICheck.status of one reported check
ciCheckStatus(c) ==
    LET state == toUpperCase(c.state)
        conclusion == toUpperCase(c.conclusion)
    IN  IF state = "PENDING" \/ state = "QUEUED" THEN "pending"
        ELSE IF state = "IN_PROGRESS" THEN "running"
        ELSE IF conclusion = "SUCCESS" THEN "passed"
        ELSE IF conclusion = "FAILURE" \/ conclusion = "TIMED_OUT" THEN "failed"
        ELSE IF conclusion = "SKIPPED" \/ conclusion = "NEUTRAL" THEN "skipped"
        ELSE "pending"

\* a getCIChecks that reports a failed check when the checks cannot be read
getCIChecks_FailClosed(raw, ghFails) ==
    IF ghFails THEN <<"failed">> ELSE [i \in 1..Len(raw) |-> ciCheckStatus(raw[i])]

\* getCIChecks(pr): the statuses of the checks; the catch returns [] when gh
\* or the parsing of its output fails
getCIChecks(raw, ghFails) ==
    IF ghFails THEN << >> ELSE [i \in 1..Len(raw) |-> ciCheckStatus(raw[i])]

\* a summary that looks for pending checks before failed ones
getCISummary_PendingFirst(checks) ==
    IF Len(checks) = 0 THEN "none"
    ELSE IF \E i \in 1..Len(checks) : checks[i] \in {"pending", "running"}
    THEN "pending"
    ELSE IF \E i \in 1..Len(checks) : checks[i] = "failed" THEN "failing"
    ELSE "passing"

\* getCISummary(pr)
getCISummary(checks) ==
    IF Len(checks) = 0 THEN "none"
    ELSE IF \E i \in 1..Len(checks) : checks[i] = "failed" THEN "failing"
    ELSE IF \E i \in 1..Len(checks) : checks[i] \in {"pending", "running"}
    THEN "pending"
    ELSE "passing"

\* `CI is ${ciStatus}`
ciBlocker(ciStatus) ==
    CASE ciStatus = "failing" -> "CI is failing"
      [] ciStatus = "pending" -> "CI is pending"
      [] ciStatus = "none" -> "CI is none"
      [] OTHER -> "CI is passing"

\* a getMergeability that derives mergeable from its three flags
getMergeability_FromFlags(data, ciStatus) ==
    LET ciPassing == ciStatus = "passing" \/ ciStatus = "none"
        reviewDecision == toUpperCase(data.reviewDecision)
        approved == reviewDecision = "APPROVED"
        noConflicts == toUpperCase(data.mergeable) # "CONFLICTING"
        blockers ==
            (IF ~ciPassing THEN <<ciBlocker(ciStatus)>> ELSE << >>)
            \o (IF reviewDecision = "CHANGES_REQUESTED"
                THEN <<"Changes requested in review">>
                ELSE IF reviewDecision = "REVIEW_REQUIRED"
                THEN <<"Review required">> ELSE << >>)
            \o (IF ~noConflicts THEN <<"Merge conflicts">> ELSE << >>)
            \o (IF data.isDraft THEN <<"PR is still a draft">> ELSE << >>)
    IN  [mergeable |-> ciPassing /\ approved /\ noConflicts,
         ciPassing |-> ciPassing, approved |-> approved,
         noConflicts |-> noConflicts, blockers |-> blockers]

\* getMergeability(pr) on the data of `gh pr view` and the CI summary
getMergeability(data, ciStatus) ==
    LET ciPassing == ciStatus = "passing" \/ ciStatus = "none"
        reviewDecision == toUpperCase(data.reviewDecision)
        approved == reviewDecision = "APPROVED"
        noConflicts == toUpperCase(data.mergeable) # "CONFLICTING"
        blockers ==
            (IF ~ciPassing THEN <<ciBlocker(ciStatus)>> ELSE << >>)
            \o (IF reviewDecision = "CHANGES_REQUESTED"
                THEN <<"Changes requested in review">>
                ELSE IF reviewDecision = "REVIEW_REQUIRED"
                THEN <<"Review required">> ELSE << >>)
            \o (IF ~noConflicts THEN <<"Merge conflicts">> ELSE << >>)
            \o (IF data.isDraft THEN <<"PR is still a draft">> ELSE << >>)
    IN  [mergeable |-> Len(blockers) = 0,
         ciPassing |-> ciPassing, approved |-> approved,
         noConflicts |-> noConflicts, blockers |-> blockers]

----------------------------------------------------------------------------
(* State *)

VARIABLES
    agentOfProject,     \* config.projects[session.projectId].agent, per session
    defaultsAgent,      \* config.defaults.agent
    runtimeHandle,      \* kind of the session's runtimeHandle, per session
    lastKnownActivity,  \* Session.lastKnownActivity, per session
    lastCheckedAt,      \* Session.lastCheckedAt, per session
    now,                \* the clock
    timers,             \* the repeating timers that are scheduled (their ids)
    nextTimer,          \* the id the next scheduled timer gets
    proc,               \* the `ao lifecycle start` process: "running" or "exited"
    flight,             \* the check in flight for each session, or NoCheck
    emitted,            \* number of OrchestratorEvents emitted, per session
    lastEvent,          \* the OrchestratorEvent emitted last, or NoEvent
    outcome,            \* how the last completed check of each session ended
    failures,           \* consecutive agent-plugin failures, per session
    changes,            \* how often lastKnownActivity changed, per session
    tickPending,        \* sessions the last tick dispatched that have not completed
    routed              \* the notify calls the last emitted event led to, per notifier

\* State of one run of `ao notify test`
VARIABLES
    cfgNotifiers,       \* the names that have an entry in config.notifiers
    routing,            \* config.notificationRouting: level -> list of names
    defaultNotifiers,   \* config.defaults.notifiers
    optNotifier,        \* the -n option, "" when not given
    optPriority,        \* the -p option
    pc,                 \* where the command is: "idle", "start", "loop",
                        \* "posting", "done" or "exit1"
    queue,              \* the notifier names the loop still has to visit
    results,            \* the lines the loop printed: <<name, "OK"|"FAIL"|"skip">>
    allPassed,          \* the allPassed flag of the loop
    creates,            \* calls of a plugin's create(), per notifier name
    notifyCalls,        \* calls of notifier.notify(event), per notifier name
    notifiedPriority,   \* event.priority of the last notify call, "" before any
    webhook,            \* url and retries the webhook notifier was created with
    fetches,            \* the responses to the fetch calls of postWithRetry
    errorMessage        \* what console.error printed before process.exit(1)

lifeVars == <<agentOfProject, defaultsAgent, runtimeHandle, lastKnownActivity,
          lastCheckedAt, now, timers, nextTimer, proc, flight, emitted, lastEvent, outcome,
          failures, changes, tickPending, routed>>

notifyVars == <<cfgNotifiers, routing, defaultNotifiers, optNotifier, optPriority,
                pc, queue, results, allPassed, creates, notifyCalls,
                notifiedPriority, webhook, fetches, errorMessage>>

\* State of one call of the SCM plugin's getMergeability
VARIABLES
    prData,             \* what `gh pr view` reports: mergeable, reviewDecision, isDraft
    prChecks,           \* what `gh pr checks` reports, and whether that call fails
    readiness,          \* the MergeReadiness returned, NoReadiness before the call
    ciChecks,           \* the statuses getCIChecks returned to getCISummary
    ciStatus            \* the CIStatus getCISummary returned, "" before

scmVars == <<prData, prChecks, readiness, ciChecks, ciStatus>>

\* State of one activity query of an agent plugin
VARIABLES
    probe,              \* the query: agent plugin, kind of runtimeHandle, and what
                        \* the outside world answers to the liveness invocations
    probePc,            \* "idle", "handle", "liveness", "evidence", "done" or "hung"
    consulted,          \* what the query looked at so far, in order
    detection           \* the state returned, "pending" before

probeVars == <<probe, probePc, consulted, detection>>

\* State of the operator-facing requests: POST /api/sessions/[id]/message and
\* `ao lifecycle check <sessionId>`
VARIABLES
    projectRuntime,     \* config.projects[session.projectId].runtime, per session:
                        \* "missing" without project, "" when not configured
    request,            \* the last POST: whether its body parses, the message
                        \* and the session id; NoRequest before any
    response,           \* the response to the last POST, NoResponse before any
    cliRuns,            \* runs of `ao lifecycle check` for an id without session
    checkReport         \* what the last of these runs told its caller

opsVars == <<projectRuntime, request, response, cliRuns, checkReport>>

\* State of one call of a method of a webhook notifier
VARIABLES
    hook,               \* the closure of create(config): whether a url is
                        \* configured, and retries
    hookCall,           \* the call: the method, and whether event.timestamp
                        \* is a valid Date
    hookPc,             \* "idle", "created", "posting", "returned" or "threw"
    hookFetches,        \* the responses to the fetch calls of this call
    hookResult          \* what the call resolved to: "void" or "null"; "" before

hookVars == <<hook, hookCall, hookPc, hookFetches, hookResult>>

\* State of one run of `ao lifecycle start`
VARIABLES
    optInterval,        \* the -i option, a string (its characters in order)
    startPc,            \* "idle", "cli" (the action runs), "exit1" or "polling"
    managers,           \* calls of createLifecycleManager
    startCalls          \* the arguments of the calls of lifecycleManager.start

startVars == <<optInterval, startPc, managers, startCalls>>

\* everything that is not state of the lifecycle manager
toolVars == <<notifyVars, scmVars, probeVars, opsVars, hookVars, startVars>>

\* everything that is not state of `ao notify test`
notNotify == <<lifeVars, scmVars, probeVars, opsVars, hookVars, startVars>>

\* everything that is not state of the SCM plugin
notScm == <<lifeVars, notifyVars, probeVars, opsVars, hookVars, startVars>>

\* everything that is not state of an activity query
notProbe == <<lifeVars, notifyVars, scmVars, opsVars, hookVars, startVars>>

\* everything that is not state of a webhook call
notHook == <<lifeVars, notifyVars, scmVars, probeVars, opsVars, startVars>>

vars == <<lifeVars, toolVars>>

config == <<agentOfProject, defaultsAgent, runtimeHandle>>

\* flight[s] is the sequence of the checks of s in flight, oldest first.  A
\* check in flight is [owner, old, fate]: who issued it ("tick" or "manual"),
\* the lastKnownActivity it resolved, and what becomes of the external
\* invocations it waits for ("answered", "failure" or "hang").

NoOutcome == [status |-> "none", error |-> "none", detected |-> "none"]

NoEvent == [sessionId |-> "none", type |-> "none", priority |-> "none",
            from |-> "unknown", to |-> "unknown"]

InFlight(s) == flight[s] # << >>

\* sequence q without its i-th element
RemoveAt(q, i) == SubSeq(q, 1, i - 1) \o SubSeq(q, i + 1, Len(q))

Min(a, b) == IF a < b THEN a ELSE b

\* the webhook notifier before it is created
NoWebhook == [url |-> FALSE, retries |-> 0]

\* no event was routed yet
NotRouted == [n \in NotifierNames |-> << >>]

\* config.notificationRouting of the lifecycle runs: every priority with its
\* list; chat and pager are not listed for action
LifecycleRouting ==
    [urgent |-> <<"pager", "chat", "desktop">>, action |-> <<"desktop", "hook">>,
     warning |-> <<"chat">>, info |-> << >>]

NoReadiness == [mergeable |-> FALSE, ciPassing |-> FALSE, approved |-> FALSE,
                noConflicts |-> FALSE, blockers |-> <<"not called">>]

\* getMergeability rejected: `gh pr view` failed
Rejected == [mergeable |-> FALSE, ciPassing |-> FALSE, approved |-> FALSE,
             noConflicts |-> FALSE, blockers |-> <<"rejected">>]

\* no pull request is looked at
ScmIdle ==
    /\ prData = [mergeable |-> "", reviewDecision |-> "", isDraft |-> FALSE]
    /\ prChecks = [raw |-> << >>, ghFails |-> FALSE]
    /\ readiness = NoReadiness
    /\ ciChecks = << >>
    /\ ciStatus = ""

NoResponse == [status |-> 0, error |-> "", sessionId |-> "", runtime |-> "",
               lookup |-> "none", sent |-> FALSE, calls |-> 0]

NoRequest == [parses |-> FALSE, message |-> "", id |-> ""]

\* no operator makes a request
OpsIdle ==
    /\ projectRuntime = [s \in SessionIds |-> "tmux"]
    /\ request = NoRequest
    /\ response = NoResponse
    /\ cliRuns = 0
    /\ checkReport = "none"

\* `ao lifecycle start` is not modelled as a command: the manager is there
StartIdle ==
    /\ optInterval = << >>
    /\ startPc = "idle"
    /\ managers = 0
    /\ startCalls = << >>

\* no webhook notifier is called on its own
HookIdle ==
    /\ hook = NoWebhook
    /\ hookCall = [method |-> "", timeValid |-> TRUE]
    /\ hookPc = "idle"
    /\ hookFetches = << >>
    /\ hookResult = ""

\* no activity query is made on its own
ProbeIdle ==
    /\ probe = [agent |-> "", kind |-> "none", answer |-> NoAnswer]
    /\ probePc = "idle"
    /\ consulted = << >>
    /\ detection = "pending"

\* `ao notify test` is not running
NotifyIdle ==
    /\ defaultNotifiers = << >>
    /\ optNotifier = ""
    /\ optPriority = ""
    /\ pc = "idle"
    /\ queue = << >>
    /\ results = << >>
    /\ allPassed = TRUE
    /\ creates = << >>
    /\ notifyCalls = << >>
    /\ notifiedPriority = ""
    /\ webhook = NoWebhook
    /\ fetches = << >>
    /\ errorMessage = ""

\* The sessions of the store when the manager is constructed: s1 ranges over
\* every profile, never checked before or last seen active; s2 is an active
\* session of the default agent.
InitialSessions(s) ==
    IF s = "s1" THEN Profiles \X {"unknown", "active"}
    ELSE {<< <<"", "tmux">>, "active" >>}

Init ==
    /\ \E st \in [SessionIds -> Profiles \X ActivityStates] :
          /\ \A s \in SessionIds : st[s] \in InitialSessions(s)
          /\ agentOfProject = [s \in SessionIds |-> st[s][1][1]]
          /\ runtimeHandle = [s \in SessionIds |-> st[s][1][2]]
          /\ lastKnownActivity = [s \in SessionIds |-> st[s][2]]
    /\ defaultsAgent \in DefaultAgents
    /\ lastCheckedAt = [s \in SessionIds |-> 0]
    /\ now = 0
    /\ timers = {}
    /\ nextTimer = 1
    /\ proc = "running"
    /\ flight = [s \in SessionIds |-> << >>]
    /\ emitted = [s \in SessionIds |-> 0]
    /\ lastEvent = NoEvent
    /\ outcome = [s \in SessionIds |-> NoOutcome]
    /\ failures = [s \in SessionIds |-> 0]
    /\ changes = [s \in SessionIds |-> 0]
    /\ tickPending = {}
    /\ routed = NotRouted
    /\ cfgNotifiers = NotifierNames
    /\ routing = LifecycleRouting
    /\ NotifyIdle
    /\ ScmIdle
    /\ ProbeIdle
    /\ OpsIdle
    /\ HookIdle
    /\ StartIdle

----------------------------------------------------------------------------
(* Lifecycle manager *)

\* start() that schedules a timer whether or not one is scheduled
startTimer_Always(t, id) == t \cup {id}

\* start(intervalMs): schedules the repeating tick unless one is scheduled
startTimer(t, id) == IF t = {} THEN {id} ELSE t

\* stop(): cancels the repeating tick
stopTimer(t) == {}

\* a manager without the in-flight guard
mayBegin_Always(s) == TRUE

\* a check may begin only for a session that has none in flight
mayBegin(s) == ~InFlight(s)

\* the plugin the check of s resolves
agentFor(s) == getAgent(agentOfProject[s], defaultsAgent)

\* the answers the outside world can give to the check of s
answersOf(s) == AnswersFor(agentFor(s), runtimeHandle[s])

\* what becomes of an external invocation that gets this answer
fateOf(answer) ==
    IF answer \in HangAnswers THEN "hang"
    ELSE IF answer \in FailureAnswers THEN "failure"
    ELSE "answered"

\* what can become of the external invocations of the check of s
fatesOf(s) == {fateOf(a) : a \in answersOf(s)}

\* steps 1 and 2 of a check: the session as resolved, the plugin call issued
beginCheck(s, owner, fate) ==
    [owner |-> owner, old |-> lastKnownActivity[s], fate |-> fate]

\* what the check of s detects on an answer: a state, "unknown", "raise",
\* "throw" (no plugin) or "never" (the plugin call does not return)
detect(s, answer) ==
    IF agentFor(s) = "throw" THEN "throw"
    ELSE queryActivity(agentFor(s), runtimeHandle[s], answer)

\* steps 4 to 6: the state of the check after its detection
checkStatus(old, detected) ==
    IF detected \in {"throw", "raise"} THEN "Errored"
    ELSE IF detected = "unknown" THEN "Unchanged"
    ELSE IF detected = old THEN "Unchanged"
    ELSE "Transitioned"

\* a patch that stores whatever was detected, unknown included
activityAfter_Overwrite(old, detected) ==
    IF detected \in ActivityStates /\ detected # old THEN detected ELSE old

\* the patch of lastKnownActivity
activityAfter(old, detected) ==
    IF checkStatus(old, detected) = "Transitioned" THEN detected ELSE old

\* a manager that forgets to refresh lastCheckedAt
checkedAtAfter_Never(detected, before, clock) == before

\* lastCheckedAt is refreshed by every check that got an answer of the plugin
checkedAtAfter(detected, before, clock) ==
    IF detected \in ActivityStates THEN clock ELSE before

\* type and priority of the event of a transition
eventType(detected) ==
    CASE detected = "idle" -> "session.idle"
      [] detected = "exited" -> "session.exited"
      [] OTHER -> "session.active"

eventPriorities(old, detected) ==
    CASE detected = "idle" -> {"action"}
      [] detected = "exited" -> {"warning", "urgent"}
      [] OTHER -> {"info"}

\* a manager that emits on every detected state, changed or not
eventsOfCheck_NoDedup(old, detected) ==
    IF detected \in KnownStates THEN 1 ELSE 0

\* the number of events a check emits
eventsOfCheck(old, detected) ==
    IF checkStatus(old, detected) = "Transitioned" THEN 1 ELSE 0

\* the event of a transition
makeEvent(s, old, detected, priority) ==
    [sessionId |-> s, type |-> eventType(detected), priority |-> priority,
     from |-> old, to |-> detected]

\* a router that calls every configured notifier, whatever the priority
route_Broadcast(event, table, notifiers) ==
    [n \in NotifierNames |->
        IF n \in notifiers /\ createNotifier(n)
        THEN << [sessionId |-> event.sessionId, priority |-> event.priority] >>
        ELSE << >>]

\* route(event): the notify calls made, per notifier: one for every name the
\* table lists for event.priority whose notifier can be constructed
route(event, table, notifiers) ==
    [n \in NotifierNames |->
        IF n \in Range(table[event.priority]) /\ n \in notifiers /\ createNotifier(n)
        THEN << [sessionId |-> event.sessionId, priority |-> event.priority] >>
        ELSE << >>]

\* the error a check reports
errorOf(detected) ==
    CASE detected = "throw" -> "configuration"
      [] detected = "raise" -> "plugin"
      [] OTHER -> "none"

\* consecutive agent-plugin failures after a check
failuresAfter(n, detected) ==
    IF detected = "raise" THEN Min(n + 1, FailureLimit)
    ELSE IF detected = "throw" THEN n
    ELSE 0

\* a manager in which an error of one check aborts the checks of the tick
flightAfter_AbortTick(s, i, detected) ==
    IF detected \in {"throw", "raise"}
    THEN [t \in SessionIds |-> SelectSeq(flight[t], LAMBDA c : c.owner # "tick")]
    ELSE [flight EXCEPT ![s] = RemoveAt(@, i)]

\* the checks in flight after the i-th check of s completed
flightAfter(s, i, detected) == [flight EXCEPT ![s] = RemoveAt(@, i)]

\* `ao lifecycle check <sessionId>`: check(sessionId), out of band.  A session
\* with a check in flight is not checked again.
ManualCheck(s) ==
    /\ mayBegin(s)
    /\ \E f \in fatesOf(s) :
          flight' = [flight EXCEPT ![s] = Append(@, beginCheck(s, "manual", f))]
    /\ UNCHANGED <<toolVars, routed, config, lastKnownActivity, lastCheckedAt, now, timers, nextTimer, proc,
                   emitted, lastEvent, outcome, failures, changes, tickPending>>

\* one tick of the repeating timer: every session without a check in flight
\* is dispatched, the others are skipped
Tick ==
    /\ proc = "running"
    /\ timers # {}
    /\ LET D == {s \in SessionIds : mayBegin(s)}
       IN  /\ D # {}
           /\ \E f \in [SessionIds -> {"answered", "failure", "hang"}] :
                 /\ \A s \in SessionIds :
                       f[s] \in (IF s \in D THEN fatesOf(s) ELSE {"answered"})
                 /\ flight' = [s \in SessionIds |->
                                 IF s \in D
                                 THEN Append(flight[s], beginCheck(s, "tick", f[s]))
                                 ELSE flight[s]]
           /\ tickPending' = tickPending \cup D
    /\ UNCHANGED <<toolVars, routed, config, lastKnownActivity, lastCheckedAt, now, timers, nextTimer, proc,
                   emitted, lastEvent, outcome, failures, changes>>

\* the check of s completes on the answer of the outside world: diff against
\* the session as resolved, update, emit.  A plugin call that never returns
\* never gets here.
CheckEnd(s) ==
    /\ InFlight(s)
    /\ now < MaxClock
    /\ \E i \in 1..Len(flight[s]), a \in answersOf(s) :
          /\ fateOf(a) = flight[s][i].fate
          /\ detect(s, a) # "never"
          /\ LET d == detect(s, a)
                 old == flight[s][i].old
             IN  /\ emitted' = [emitted EXCEPT ![s] = @ + eventsOfCheck(old, d)]
                 /\ \E p \in eventPriorities(old, d) :
                       /\ lastEvent' = IF eventsOfCheck(old, d) > 0
                                       THEN makeEvent(s, old, d, p) ELSE lastEvent
                       /\ routed' = IF eventsOfCheck(old, d) > 0
                                    THEN route(makeEvent(s, old, d, p), routing,
                                               cfgNotifiers)
                                    ELSE routed
                 /\ lastKnownActivity' =
                       [lastKnownActivity EXCEPT ![s] = activityAfter(old, d)]
                 /\ lastCheckedAt' =
                       [lastCheckedAt EXCEPT
                          ![s] = checkedAtAfter(d, lastCheckedAt[s], now + 1)]
                 /\ outcome' = [outcome EXCEPT
                          ![s] = [status |-> checkStatus(old, d),
                                  error |-> errorOf(d), detected |-> d]]
                 /\ failures' =
                       [failures EXCEPT ![s] = failuresAfter(failures[s], d)]
                 /\ changes' = [changes EXCEPT
                          ![s] = IF activityAfter(old, d) # lastKnownActivity[s]
                                 THEN @ + 1 ELSE @]
                 /\ flight' = flightAfter(s, i, d)
    /\ now' = now + 1
    /\ tickPending' = tickPending \ {s}
    /\ UNCHANGED <<toolVars, config, timers, nextTimer, proc>>

\* lifecycleManager.start(intervalMs)
Start ==
    /\ proc = "running"
    /\ nextTimer <= MaxStarts
    /\ timers' = startTimer(timers, nextTimer)
    /\ nextTimer' = IF timers' # timers THEN nextTimer + 1 ELSE nextTimer
    /\ UNCHANGED <<toolVars, routed, config, lastKnownActivity, lastCheckedAt, now, proc, flight,
                   emitted, lastEvent, outcome, failures, changes, tickPending>>

\* lifecycleManager.stop(): checks in flight are left alone
Stop ==
    /\ proc = "running"
    /\ timers' = stopTimer(timers)
    /\ UNCHANGED <<toolVars, routed, config, lastKnownActivity, lastCheckedAt, now, nextTimer, proc, flight,
                   emitted, lastEvent, outcome, failures, changes, tickPending>>

\* the checks that survive the exit of the polling process
NotOfTick(c) == c.owner # "tick"

flightAfterExit == [s \in SessionIds |-> SelectSeq(flight[s], NotOfTick)]

\* SIGINT handler of `ao lifecycle start`: stop(), then process.exit(0)
Sigint ==
    /\ proc = "running"
    /\ timers' = stopTimer(timers)
    /\ nextTimer' = 0
    /\ proc' = "exited"
    /\ flight' = flightAfterExit
    /\ tickPending' = {}
    /\ UNCHANGED <<toolVars, routed, config, lastKnownActivity, lastCheckedAt, now, emitted,
                   lastEvent, outcome, failures, changes>>

Next ==
    \/ \E s \in SessionIds : ManualCheck(s)
    \/ Tick
    \/ \E s \in SessionIds : CheckEnd(s)
    \/ Start
    \/ Stop
    \/ Sigint

Spec == Init /\ [][Next]_vars

----------------------------------------------------------------------------
(* The `ao notify test` command *)

\* the lifecycle manager is not part of the run
LifecycleIdle ==
    /\ agentOfProject = [s \in SessionIds |-> ""]
    /\ defaultsAgent = "claude-code"
    /\ runtimeHandle = [s \in SessionIds |-> "tmux"]
    /\ lastKnownActivity = [s \in SessionIds |-> "unknown"]
    /\ lastCheckedAt = [s \in SessionIds |-> 0]
    /\ now = 0
    /\ timers = {}
    /\ nextTimer = 1
    /\ proc = "exited"
    /\ flight = [s \in SessionIds |-> << >>]
    /\ emitted = [s \in SessionIds |-> 0]
    /\ lastEvent = NoEvent
    /\ outcome = [s \in SessionIds |-> NoOutcome]
    /\ failures = [s \in SessionIds |-> 0]
    /\ changes = [s \in SessionIds |-> 0]
    /\ tickPending = {}
    /\ routed = NotRouted

\* `ao notify test [-n name] [-p level]` is started on some configuration
InitNotify ==
    /\ LifecycleIdle
    /\ ScmIdle
    /\ ProbeIdle
    /\ OpsIdle
    /\ HookIdle
    /\ StartIdle
    /\ cfgNotifiers \in SUBSET NotifierNames
    /\ routing \in [Range(RoutingLevels) -> RoutingLists]
    /\ defaultNotifiers \in DefaultLists
    /\ optNotifier \in NotifierOptions
    /\ optPriority \in PriorityOptions
    /\ pc = "start"
    /\ queue = << >>
    /\ results = << >>
    /\ allPassed = TRUE
    /\ creates = [n \in NotifierNames |-> 0]
    /\ notifyCalls = [n \in NotifierNames |-> 0]
    /\ notifiedPriority = ""
    /\ webhook = NoWebhook
    /\ fetches = << >>
    /\ errorMessage = ""

\* the loop printed `line` for the name at the head of the queue
printLine(line) ==
    /\ results' = Append(results, <<Head(queue), line>>)
    /\ queue' = queueAfter(queue, line)
    /\ allPassed' = passedAfter(allPassed, line)

\* what the action prints with console.error before process.exit(1), in the
\* order of its checks: the priority, loadConfig, resolveNotifierNames; "" when
\* it gets to the loop
exitError(priority, found, resolved) ==
    IF priority \notin VALID_PRIORITIES THEN "Invalid priority"
    ELSE IF ~found THEN "No config found"
    ELSE IF ~resolved.ok THEN "Unknown notifier"
    ELSE ""

\* the action of `notify test` up to the loop: the priority is validated, the
\* configuration loaded, the names resolved
NotifyTest ==
    /\ pc = "start"
    /\ \E found \in BOOLEAN :
          LET r == resolveNotifierNames(cfgNotifiers, routing, defaultNotifiers,
                                        optNotifier)
          IN  /\ errorMessage' = exitError(optPriority, found, r)
              /\ IF errorMessage' # ""
                 THEN pc' = "exit1" /\ queue' = << >>
                 ELSE IF r.names = << >>
                 THEN pc' = "done" /\ queue' = << >>
                 ELSE pc' = "loop" /\ queue' = r.names
    /\ UNCHANGED <<notNotify, cfgNotifiers, routing, defaultNotifiers, optNotifier,
                   optPriority, results, allPassed, creates, notifyCalls,
                   notifiedPriority, webhook, fetches>>

\* one round of the loop over the names: skip without config, FAIL when the
\* plugin cannot be created, otherwise testNotifier.  The webhook notifier goes
\* on in postWithRetry unless it has no url.
NotifyOne ==
    /\ pc = "loop"
    /\ queue # << >>
    /\ LET n == Head(queue)
       IN  IF n \notin cfgNotifiers
           THEN /\ printLine("skip")
                /\ UNCHANGED <<pc, creates, notifyCalls, notifiedPriority, webhook,
                               fetches>>
           ELSE IF ~createNotifier(n)
           THEN /\ printLine("FAIL")
                /\ UNCHANGED <<pc, creates, notifyCalls, notifiedPriority, webhook,
                               fetches>>
           ELSE /\ creates' = Count(creates, n)
                /\ notifyCalls' = Count(notifyCalls, n)
                /\ notifiedPriority' = optPriority
                /\ IF NotifierPlugin(n) = "webhook"
                   THEN \E url \in BOOLEAN, set \in BOOLEAN, given \in 0..MaxRetries :
                           /\ webhook' = [url |-> url,
                                          retries |-> IF set THEN given
                                                      ELSE DefaultRetries]
                           /\ fetches' = << >>
                           /\ IF url
                              THEN /\ pc' = "posting"
                                   /\ UNCHANGED <<queue, results, allPassed>>
                              ELSE /\ printLine("OK")
                                   /\ UNCHANGED pc
                   ELSE /\ \E line \in {"OK", "FAIL"} : printLine(line)
                        /\ UNCHANGED <<pc, webhook, fetches>>
    /\ UNCHANGED <<notNotify, cfgNotifiers, routing, defaultNotifiers, optNotifier,
                   optPriority, errorMessage>>

\* one fetch of postWithRetry and what the loop does with its result
Fetch ==
    /\ pc = "posting"
    /\ \E fetched \in FetchResults :
          /\ fetches' = Append(fetches, fetched)
          /\ LET step == postWithRetry(Len(fetches), webhook.retries, fetched)
             IN  CASE step = "return" -> printLine("OK") /\ pc' = "loop"
                   [] step = "throw" -> printLine("FAIL") /\ pc' = "loop"
                   [] OTHER -> UNCHANGED <<pc, queue, results, allPassed>>
    /\ UNCHANGED <<notNotify, cfgNotifiers, routing, defaultNotifiers, optNotifier,
                   optPriority, creates, notifyCalls, notifiedPriority, webhook,
                   errorMessage>>

\* the loop is through: the summary is printed and the command returns
NotifyDone ==
    /\ pc = "loop"
    /\ queue = << >>
    /\ pc' = "done"
    /\ UNCHANGED <<notNotify, cfgNotifiers, routing, defaultNotifiers, optNotifier,
                   optPriority, queue, results, allPassed, creates, notifyCalls,
                   notifiedPriority, webhook, fetches, errorMessage>>

NextNotify ==
    \/ NotifyTest
    \/ NotifyOne
    \/ Fetch
    \/ NotifyDone

SpecNotify == InitNotify /\ [][NextNotify]_vars

----------------------------------------------------------------------------
(* One call of a method of a webhook notifier *)

\* a webhook notifier was created from some config and a method is called
InitWebhook ==
    /\ LifecycleIdle
    /\ cfgNotifiers = {}
    /\ routing = << >>
    /\ NotifyIdle
    /\ ScmIdle
    /\ ProbeIdle
    /\ OpsIdle
    /\ StartIdle
    /\ \E urlGiven \in BOOLEAN, retriesSet \in BOOLEAN, given \in 0..MaxRetries :
          hook = create(urlGiven, retriesSet, given)
    /\ hookCall \in [method : WebhookMethods, timeValid : BOOLEAN]
    /\ hookPc = "created"
    /\ hookFetches = << >>
    /\ hookResult = ""

\* the method runs up to its first await
CallMethod ==
    /\ hookPc = "created"
    /\ LET step == callWebhook(hookCall.method, hook.url, hookCall.timeValid)
       IN  CASE step = "return" ->
                   hookPc' = "returned" /\ hookResult' = resultOf(hookCall.method)
             [] step = "throw" -> hookPc' = "threw" /\ UNCHANGED hookResult
             [] OTHER -> hookPc' = "posting" /\ UNCHANGED hookResult
    /\ UNCHANGED <<notHook, hook, hookCall, hookFetches>>

\* one fetch of postWithRetry and what the loop does with its result
HookFetch ==
    /\ hookPc = "posting"
    /\ \E fetched \in FetchResults :
          /\ hookFetches' = Append(hookFetches, fetched)
          /\ LET step == postWithRetry(Len(hookFetches), hook.retries, fetched)
             IN  CASE step = "return" ->
                         hookPc' = "returned" /\ hookResult' = resultOf(hookCall.method)
                   [] step = "throw" -> hookPc' = "threw" /\ UNCHANGED hookResult
                   [] OTHER -> UNCHANGED <<hookPc, hookResult>>
    /\ UNCHANGED <<notHook, hook, hookCall>>

NextWebhook ==
    \/ CallMethod
    \/ HookFetch

SpecWebhook == InitWebhook /\ [][NextWebhook]_vars

----------------------------------------------------------------------------
(* The SCM plugin's getMergeability *)

\* getMergeability is called for some pull request
InitScm ==
    /\ LifecycleIdle
    /\ cfgNotifiers = {}
    /\ routing = << >>
    /\ NotifyIdle
    /\ ProbeIdle
    /\ OpsIdle
    /\ HookIdle
    /\ StartIdle
    /\ prData \in [mergeable : Mergeables, reviewDecision : ReviewDecisions,
                   isDraft : BOOLEAN]
    /\ prChecks \in [raw : CheckLists(MaxChecks), ghFails : BOOLEAN]
    /\ readiness = NoReadiness
    /\ ciChecks = << >>
    /\ ciStatus = ""

\* the CI summary of the pull request
ciSummary == getCISummary(getCIChecks(prChecks.raw, prChecks.ghFails))

\* getMergeability(pr) returns, or rejects when `gh pr view` fails; the CI is
\* read after the pull request was
GetMergeability ==
    /\ readiness = NoReadiness
    /\ \E viewFails \in BOOLEAN :
          IF viewFails
          THEN /\ readiness' = Rejected
               /\ UNCHANGED <<ciChecks, ciStatus>>
          ELSE /\ ciChecks' = getCIChecks(prChecks.raw, prChecks.ghFails)
               /\ ciStatus' = getCISummary(ciChecks')
               /\ readiness' = getMergeability(prData, ciStatus')
    /\ UNCHANGED <<notScm, prData, prChecks>>

NextScm == GetMergeability

SpecScm == InitScm /\ [][NextScm]_vars

----------------------------------------------------------------------------
(* One activity query of an agent plugin, step by step *)

\* the agent plugins whose activity query is in the sources
SourceAgents == {"codex", "opencode", "aider"}

\* getActivityState(session) / detectActivity(session) is called
InitProbe ==
    /\ LifecycleIdle
    /\ cfgNotifiers = {}
    /\ routing = << >>
    /\ NotifyIdle
    /\ ScmIdle
    /\ OpsIdle
    /\ HookIdle
    /\ StartIdle
    /\ \E a \in SourceAgents, k \in HandleKinds :
          \E w \in AnswersFor(a, k) :
             probe = [agent |-> a, kind |-> k, answer |-> w]
    /\ probePc = "handle"
    /\ consulted = << >>
    /\ detection = "pending"

\* what the liveness of the probed session resolves to
probeRunning == isProcessRunning(probe.agent, probe.kind, probe.answer)

\* if (!session.runtimeHandle) return exited
CheckHandle ==
    /\ probePc = "handle"
    /\ consulted' = Append(consulted, "handle")
    /\ IF probe.kind = "none"
       THEN /\ detection' = queryActivity(probe.agent, probe.kind, probe.answer)
            /\ probePc' = "done"
       ELSE /\ probePc' = "liveness"
            /\ UNCHANGED detection
    /\ UNCHANGED <<notProbe, probe>>

\* running = await this.isProcessRunning(handle); if (!running) return exited
ResolveLiveness ==
    /\ probePc = "liveness"
    /\ consulted' = Append(consulted, "liveness")
    /\ CASE probeRunning = "never" -> probePc' = "hung" /\ UNCHANGED detection
         [] probeRunning = "false" ->
               /\ detection' = queryActivity(probe.agent, probe.kind, probe.answer)
               /\ probePc' = "done"
         [] OTHER -> probePc' = "evidence" /\ UNCHANGED detection
    /\ UNCHANGED <<notProbe, probe>>

\* what the plugin makes of a running process: null (codex, opencode), active
\* (aider)
ConsultEvidence ==
    /\ probePc = "evidence"
    /\ consulted' = Append(consulted, "evidence")
    /\ detection' = queryActivity(probe.agent, probe.kind, probe.answer)
    /\ probePc' = "done"
    /\ UNCHANGED <<notProbe, probe>>

NextProbe ==
    \/ CheckHandle
    \/ ResolveLiveness
    \/ ConsultEvidence

SpecProbe == InitProbe /\ [][NextProbe]_vars

----------------------------------------------------------------------------
(* Operator-facing requests: the message endpoint and `ao lifecycle check` *)

\* the runtime plugins the registry of the web server holds
runtimePlugins == {"tmux", "process"}

\* the values config.projects[...].runtime is drawn from
ProjectRuntimes == {"missing", "", "tmux", "docker"}

\* a session id no session has
NoSuchSession == "ghost"

\* registry.get("runtime", name): the plugin, or for a name that is not
\* registered what `miss` says: "null" (the route tests for it) or "throw"
registryGet(name, miss) == IF name \in runtimePlugins THEN name ELSE miss

\* an endpoint that does not test the session for its runtime handle
POST_NoHandleCheck(parses, message, id, miss, sendThrows) ==
    LET reply(status, error, lookup, calls) ==
            [status |-> status, error |-> error, sessionId |-> id,
             runtime |-> IF id \in SessionIds THEN projectRuntime[id] ELSE "",
             lookup |-> lookup, sent |-> status = 200, calls |-> calls]
    IN  IF ~parses THEN reply(500, "Internal server error", "none", 0)
        ELSE IF message = "" THEN reply(400, "Missing message", "none", 0)
        ELSE IF id \notin SessionIds THEN reply(404, "Session not found", "none", 0)
        ELSE IF projectRuntime[id] = "missing"
        THEN reply(404, "Project not found", "none", 0)
        ELSE IF projectRuntime[id] = ""
        THEN reply(500, "Project has no runtime configured", "none", 0)
        ELSE IF registryGet(projectRuntime[id], miss) = "throw"
        THEN reply(500, "Internal server error", "throw", 0)
        ELSE IF registryGet(projectRuntime[id], miss) = "null"
        THEN reply(500, "Runtime plugin not found", "null", 0)
        ELSE IF sendThrows THEN reply(500, "Failed to send message", "found", 1)
        ELSE reply(200, "", "found", 1)

\* POST /api/sessions/[id]/message: the response, for a request body that
\* parses or not, a message, a session id, what registry.get does on a miss and
\* whether runtime.sendMessage throws
\* calls counts the calls of runtime.sendMessage the request made
POST(parses, message, id, miss, sendThrows) ==
    LET reply(status, error, lookup, calls) ==
            [status |-> status, error |-> error, sessionId |-> id,
             runtime |-> IF id \in SessionIds THEN projectRuntime[id] ELSE "",
             lookup |-> lookup, sent |-> status = 200, calls |-> calls]
    IN  IF ~parses THEN reply(500, "Internal server error", "none", 0)
        ELSE IF message = "" THEN reply(400, "Missing message", "none", 0)
        ELSE IF id \notin SessionIds THEN reply(404, "Session not found", "none", 0)
        ELSE IF runtimeHandle[id] = "none"
        THEN reply(400, "Session has no runtime handle", "none", 0)
        ELSE IF projectRuntime[id] = "missing"
        THEN reply(404, "Project not found", "none", 0)
        ELSE IF projectRuntime[id] = ""
        THEN reply(500, "Project has no runtime configured", "none", 0)
        ELSE IF registryGet(projectRuntime[id], miss) = "throw"
        THEN reply(500, "Internal server error", "throw", 0)
        ELSE IF registryGet(projectRuntime[id], miss) = "null"
        THEN reply(500, "Runtime plugin not found", "null", 0)
        ELSE IF sendThrows THEN reply(500, "Failed to send message", "found", 1)
        ELSE reply(200, "", "found", 1)

\* the plugin name an error text of the endpoint states: none of them does
pluginNamedIn(error) == ""

\* the slot an error text of the endpoint states
slotNamedIn(error) == IF error = "Runtime plugin not found" THEN "runtime" ELSE ""

\* a manager whose check() returns quietly when there is no such session
check_Quiet(id) == "resolved"

\* lifecycleManager.check(sessionId), step 1: without a session of that id
\* the check is rejected with not-found
check(id) == IF id \in SessionIds THEN "resolved" ELSE "not-found"

\* a command that swallows the rejection of check()
lifecycleCheck_Swallow(id) == "Done"

\* `ao lifecycle check <sessionId>`: "Done" is printed after check() resolved;
\* a rejection is not caught and reaches the caller
lifecycleCheck(id) == IF check(id) = "resolved" THEN "Done" ELSE check(id)

\* the sessions the requests are made on: s1 is an active codex session with
\* or without runtimeHandle, s2 an active session of the default agent
OpsSessions(s) ==
    IF s = "s1" THEN {<<"codex", "tmux">>, <<"codex", "none">>} \X {"active"}
    ELSE {<< <<"", "tmux">>, "active" >>}

\* the sessions and projects the requests are made on
InitOps ==
    /\ \E st \in [SessionIds -> Profiles \X ActivityStates] :
          /\ \A s \in SessionIds : st[s] \in OpsSessions(s)
          /\ agentOfProject = [s \in SessionIds |-> st[s][1][1]]
          /\ runtimeHandle = [s \in SessionIds |-> st[s][1][2]]
          /\ lastKnownActivity = [s \in SessionIds |-> st[s][2]]
    /\ defaultsAgent \in DefaultAgents
    /\ lastCheckedAt = [s \in SessionIds |-> 0]
    /\ now = 0
    /\ timers = {}
    /\ nextTimer = 1
    /\ proc = "exited"
    /\ flight = [s \in SessionIds |-> << >>]
    /\ emitted = [s \in SessionIds |-> 0]
    /\ lastEvent = NoEvent
    /\ outcome = [s \in SessionIds |-> NoOutcome]
    /\ failures = [s \in SessionIds |-> 0]
    /\ changes = [s \in SessionIds |-> 0]
    /\ tickPending = {}
    /\ routed = NotRouted
    /\ cfgNotifiers = NotifierNames
    /\ routing = LifecycleRouting
    /\ NotifyIdle
    /\ ScmIdle
    /\ ProbeIdle
    /\ HookIdle
    /\ StartIdle
    /\ projectRuntime \in [SessionIds -> ProjectRuntimes]
    /\ projectRuntime["s2"] = "tmux"
    /\ request = NoRequest
    /\ response = NoResponse
    /\ cliRuns = 0
    /\ checkReport = "none"

\* an endpoint that marks the session active once the message is sent
activityAfterPost_MarkActive(reply) ==
    IF reply.sent THEN [lastKnownActivity EXCEPT ![reply.sessionId] = "active"]
    ELSE lastKnownActivity

\* lastKnownActivity after a POST: the endpoint only reads the session
\* (sessionManager.get) and hands the message to the runtime plugin
activityAfterPost(reply) == lastKnownActivity

\* a POST to the message endpoint is served
PostMessage ==
    /\ \E parses \in BOOLEAN, message \in {"", "go on"},
          id \in SessionIds \cup {NoSuchSession}, miss \in {"null", "throw"},
          sendThrows \in BOOLEAN :
          /\ request' = [parses |-> parses, message |-> message, id |-> id]
          /\ response' = POST(parses, message, id, miss, sendThrows)
    /\ lastKnownActivity' = activityAfterPost(response')
    /\ UNCHANGED <<config, lastCheckedAt, now, timers, nextTimer, proc, flight,
                   emitted, lastEvent, outcome, failures, changes, tickPending,
                   routed>>
    /\ UNCHANGED <<notifyVars, scmVars, probeVars, hookVars, startVars,
                   projectRuntime, cliRuns, checkReport>>

\* `ao lifecycle check ghost`: there is no such session
ManualCheckMissing ==
    /\ cliRuns < MaxCliRuns
    /\ cliRuns' = cliRuns + 1
    /\ checkReport' = lifecycleCheck(NoSuchSession)
    /\ UNCHANGED <<lifeVars, notifyVars, scmVars, probeVars, hookVars, startVars,
                   projectRuntime, request, response>>

\* the operator posts to any session and checks s1 or a session that is not
\* there; s2 is the session nobody checks
NextOps ==
    \/ PostMessage
    \/ ManualCheckMissing
    \/ ManualCheck("s1")
    \/ CheckEnd("s1")

SpecOps == InitOps /\ [][NextOps]_vars

----------------------------------------------------------------------------
(* The `ao lifecycle start` command *)

\* `ao lifecycle start -i <ms>` is run on a store of two sessions; the
\* configuration loads and the registry and session manager are there
InitStart ==
    /\ \E st \in [SessionIds -> Profiles \X ActivityStates] :
          /\ \A s \in SessionIds : st[s] \in OpsSessions(s)
          /\ agentOfProject = [s \in SessionIds |-> st[s][1][1]]
          /\ runtimeHandle = [s \in SessionIds |-> st[s][1][2]]
          /\ lastKnownActivity = [s \in SessionIds |-> st[s][2]]
    /\ defaultsAgent \in DefaultAgents
    /\ lastCheckedAt = [s \in SessionIds |-> 0]
    /\ now = 0
    /\ timers = {}
    /\ nextTimer = 1
    /\ proc = "running"
    /\ flight = [s \in SessionIds |-> << >>]
    /\ emitted = [s \in SessionIds |-> 0]
    /\ lastEvent = NoEvent
    /\ outcome = [s \in SessionIds |-> NoOutcome]
    /\ failures = [s \in SessionIds |-> 0]
    /\ changes = [s \in SessionIds |-> 0]
    /\ tickPending = {}
    /\ routed = NotRouted
    /\ cfgNotifiers = NotifierNames
    /\ routing = LifecycleRouting
    /\ NotifyIdle
    /\ ScmIdle
    /\ ProbeIdle
    /\ OpsIdle
    /\ HookIdle
    /\ optInterval \in IntervalOptions
    /\ startPc = "cli"
    /\ managers = 0
    /\ startCalls = << >>

\* the action of `lifecycle start`: the interval is parsed and validated,
\* then the manager is created and started
LifecycleStart ==
    /\ startPc = "cli"
    /\ LET intervalMs == parseInt(optInterval)
       IN  IF ~validInterval(intervalMs)
           THEN /\ startPc' = "exit1"
                /\ proc' = "exited"
                /\ UNCHANGED <<managers, startCalls, timers, nextTimer>>
           ELSE /\ startPc' = "polling"
                /\ managers' = managers + 1
                /\ startCalls' = Append(startCalls, intervalMs.value)
                /\ timers' = startTimer(timers, nextTimer)
                /\ nextTimer' = IF timers' # timers THEN nextTimer + 1 ELSE nextTimer
                /\ UNCHANGED proc
    /\ UNCHANGED <<routed, config, lastKnownActivity, lastCheckedAt, now, flight,
                   emitted, lastEvent, outcome, failures, changes, tickPending>>
    /\ UNCHANGED <<notifyVars, scmVars, probeVars, opsVars, hookVars, optInterval>>

\* Ctrl-C once the handler is installed
Interrupt == startPc = "polling" /\ Sigint

NextStart ==
    \/ LifecycleStart
    \/ Tick
    \/ \E s \in SessionIds : CheckEnd(s)
    \/ Interrupt

SpecStart == InitStart /\ [][NextStart]_vars

----------------------------------------------------------------------------
(* Properties *)

\* a check of s completed in this step
Completed(s) == now' = now + 1 /\ Len(flight'[s]) < Len(flight[s])

\* the agent name the project of s configures, after the default is applied
agentNameOf(s) ==
    IF agentOfProject[s] # "" THEN agentOfProject[s] ELSE defaultsAgent

\* C1: at any time at most one check is in flight for a session, and the
\* lastKnownActivity a check in flight has read is still the stored one (no
\* other check wrote it in between).
C1_OneCheckInFlight ==
    \A s \in SessionIds :
        /\ Len(flight[s]) <= 1
        /\ \A i \in 1..Len(flight[s]) : flight[s][i].old = lastKnownActivity[s]

\* a tick ran while the manual check of s1 was in flight: it dispatched s2 and
\* skipped s1
C1_Witness ==
    /\ now = 0
    /\ Len(flight["s1"]) = 1 /\ flight["s1"][1].owner = "manual"
    /\ Len(flight["s2"]) = 1 /\ flight["s2"][1].owner = "tick"

\* C2: a check that detects idle, active or exited, different from the stored
\* lastKnownActivity, emits exactly one event, for its session, and stores the
\* detected state; the events emitted for a session are as many as the changes
\* of its lastKnownActivity.
C2_OneEventPerTransition ==
    /\ [](\A s \in SessionIds : emitted[s] = changes[s])
    /\ [][\A s \in SessionIds :
            (/\ Completed(s)
             /\ outcome'[s].detected \in KnownStates
             /\ outcome'[s].detected # lastKnownActivity[s])
            => /\ emitted'[s] = emitted[s] + 1
               /\ \A t \in SessionIds \ {s} : emitted'[t] = emitted[t]
               /\ lastEvent'.sessionId = s
               /\ lastEvent'.to = outcome'[s].detected
               /\ lastKnownActivity'[s] = outcome'[s].detected]_vars

\* s2 went from active to idle and one event was emitted for it
C2_Witness ==
    /\ outcome["s2"].status = "Transitioned"
    /\ lastKnownActivity["s2"] = "idle"
    /\ emitted["s2"] = 1 /\ changes["s2"] = 1
    /\ lastEvent.sessionId = "s2" /\ lastEvent.from = "active"

\* C3: a check whose result is unknown (null) emits no event and leaves
\* lastKnownActivity as it was, however many of them follow one another.
C3_UnknownIdempotent ==
    [][\A s \in SessionIds :
         (Completed(s) /\ outcome'[s].detected = "unknown")
         => /\ emitted' = emitted
            /\ lastEvent' = lastEvent
            /\ lastKnownActivity' = lastKnownActivity]_vars

\* two checks of the active codex session s1 both came back unknown
C3_Witness ==
    /\ agentOfProject["s1"] = "codex"
    /\ now = 2 /\ outcome["s2"].status = "none"
    /\ outcome["s1"].detected = "unknown"
    /\ lastKnownActivity["s1"] = "active" /\ emitted["s1"] = 0

\* C4: a check that detects the stored lastKnownActivity emits no event,
\* leaves lastKnownActivity as it was and advances lastCheckedAt.
C4_UnchangedNoEvent ==
    [][\A s \in SessionIds :
         (Completed(s) /\ outcome'[s].detected = lastKnownActivity[s])
         => /\ emitted' = emitted
            /\ lastEvent' = lastEvent
            /\ lastKnownActivity' = lastKnownActivity
            /\ lastCheckedAt'[s] > lastCheckedAt[s]]_vars

\* s2 was detected active twice in a row, after both checks of the run
C4_Witness ==
    /\ now = 2 /\ outcome["s1"].status = "none"
    /\ outcome["s2"].detected = "active" /\ outcome["s2"].status = "Unchanged"
    /\ lastKnownActivity["s2"] = "active" /\ emitted["s2"] = 0
    /\ lastCheckedAt["s2"] = 2

\* C5: the check of a session whose project names an agent plugin that is not
\* registered reports a configuration error, emits no event and leaves
\* lastKnownActivity as it was.
C5_MissingPluginIsConfigError ==
    [][\A s \in SessionIds :
         (Completed(s) /\ agentNameOf(s) \notin agentPlugins)
         => /\ outcome'[s].status = "Errored"
            /\ outcome'[s].error = "configuration"
            /\ emitted' = emitted
            /\ lastEvent' = lastEvent
            /\ lastKnownActivity' = lastKnownActivity]_vars

\* the check of the opencode session s1 reported a configuration error
C5_Witness ==
    /\ agentOfProject["s1"] = "opencode"
    /\ outcome["s1"].error = "configuration"
    /\ emitted["s1"] = 0

\* C6: an error in the check of one session stays in that check: the checks
\* the tick dispatched for the other sessions stay in flight until they
\* complete, nothing of another session changes, and the timer stays scheduled.
C6_ErrorContained ==
    /\ [](\A s \in tickPending :
             \E i \in 1..Len(flight[s]) : flight[s][i].owner = "tick")
    /\ [][\A s \in SessionIds :
            (Completed(s) /\ outcome'[s].status = "Errored")
            => /\ timers' = timers
               /\ proc' = proc
               /\ \A t \in SessionIds \ {s} :
                     /\ flight'[t] = flight[t]
                     /\ lastKnownActivity'[t] = lastKnownActivity[t]
                     /\ outcome'[t] = outcome[t]]_vars

\* the check of s1 ended in an error while the check the same tick dispatched
\* for s2 is still in flight and the timer is still scheduled
C6_Witness ==
    /\ outcome["s1"].status = "Errored"
    /\ now = 1
    /\ tickPending = {"s2"}
    /\ Len(flight["s2"]) = 1 /\ flight["s2"][1].owner = "tick"
    /\ timers # {}

\* C7: failures of the agent plugin, a failed or timed-out liveness invocation
\* included, never make a session exited: no check whose external invocation
\* failed or hung records or notifies a transition to exited.
C7_FailureNeverExited ==
    [][\A s \in SessionIds :
         (Completed(s) /\ flight[s][1].fate \in {"failure", "hang"})
         => /\ ~(lastKnownActivity'[s] = "exited" /\ lastKnownActivity[s] # "exited")
            /\ emitted' = emitted]_vars

C9_StopLetsChecksFinish ==
    /\ [](timers = {} => ~ENABLED Tick)
    /\ [][\A s \in SessionIds :
            Len(flight'[s]) < Len(flight[s]) => Completed(s)]_vars

\* C10: every external invocation of a check has a hard timeout, so a check in
\* flight can always complete, also when the tool hangs; and a check whose
\* invocation timed out ends Errored.
C10_TimeoutBoundsCheck ==
    /\ [](\A s \in SessionIds :
             (InFlight(s) /\ now < MaxClock) => ENABLED CheckEnd(s))
    /\ [][\A s \in SessionIds :
            (Completed(s) /\ flight[s][1].fate = "hang")
            => outcome'[s].status = "Errored"]_vars

\* the lines `ao notify test` printed for a notifier name
linesOf(name) == {results[i][2] : i \in {j \in 1..Len(results) : results[j][1] = name}}

\* C11: a delivery with retries = N makes at most N + 1 attempts, one after
\* another; no attempt follows a successful one and the delivery then reports
\* success; it reports failure only when N + 1 attempts were made and all failed.
C11_RetriesBounded ==
    /\ Len(fetches) <= webhook.retries + 1
    /\ \A i \in 1..(Len(fetches) - 1) : fetches[i] # "ok"
    /\ pc = "posting" => (Len(fetches) <= webhook.retries /\ "ok" \notin Range(fetches))
    /\ (webhook.url /\ pc # "posting")
       => /\ linesOf("hook") \in {{"OK"}, {"FAIL"}}
          /\ "OK" \in linesOf("hook") <=> fetches[Len(fetches)] = "ok"
          /\ "FAIL" \in linesOf("hook")
             => /\ Len(fetches) = webhook.retries + 1
                /\ "ok" \notin Range(fetches)

\* with retries = 2 the webhook failed twice, succeeded on the third attempt
\* and the delivery was reported as a success
C11_Witness ==
    /\ webhook.url /\ webhook.retries = 2
    /\ fetches = <<"throw", "status", "ok">>
    /\ linesOf("hook") = {"OK"}

\* the names the run of `ao notify test` resolved
resolvedNames ==
    resolveNotifierNames(cfgNotifiers, routing, defaultNotifiers, optNotifier).names

\* C12: when the loop is through, every name of the list has its own line,
\* whatever happened to the names before it: skip without config, FAIL without
\* a delivery when the plugin cannot be created, and otherwise exactly one
\* notify call and the line OK or FAIL; allPassed only sums the lines up.
C12_FailureDoesNotStopOthers ==
    (pc = "done" /\ results # << >>)
    => /\ Len(results) = Len(resolvedNames)
       /\ \A i \in 1..Len(results) :
             LET n == resolvedNames[i]
                 line == results[i][2]
             IN  /\ results[i][1] = n
                 /\ n \notin cfgNotifiers => line = "skip" /\ notifyCalls[n] = 0
                 /\ (n \in cfgNotifiers /\ ~createNotifier(n))
                    => line = "FAIL" /\ notifyCalls[n] = 0
                 /\ (n \in cfgNotifiers /\ createNotifier(n))
                    => line \in {"OK", "FAIL"} /\ notifyCalls[n] = 1
       /\ allPassed <=> \A i \in 1..Len(results) : results[i][2] # "FAIL"

\* the plugin of pager could not be created, the webhook failed on all its
\* attempts, and the desktop notifier after them was still notified
C12_Witness ==
    /\ pc = "done"
    /\ results = << <<"pager", "FAIL">>, <<"hook", "FAIL">>, <<"desktop", "OK">> >>
    /\ Len(fetches) = webhook.retries + 1
    /\ notifyCalls["desktop"] = 1

\* C13: when a check takes a session from active to idle, the event has
\* priority action, and every notifier the routing table lists for action gets
\* exactly one notify call, with that session's id and priority action; the
\* other notifiers get none.
C13_ActionEventRouted ==
    [][\A s \in SessionIds :
         (/\ Completed(s)
          /\ lastKnownActivity[s] = "active"
          /\ lastKnownActivity'[s] = "idle")
         => /\ lastEvent'.sessionId = s
            /\ lastEvent'.priority = "action"
            /\ \A n \in NotifierNames :
                  routed'[n] = IF n \in Range(routing["action"])
                               THEN << [sessionId |-> s, priority |-> "action"] >>
                               ELSE << >>]_vars

\* s2 went from active to idle; desktop and hook got the one call each, chat
\* and pager, listed for other priorities, none
C13_Witness ==
    /\ lastEvent.sessionId = "s2" /\ lastEvent.from = "active" /\ lastEvent.to = "idle"
    /\ Len(routed["desktop"]) = 1 /\ routed["desktop"][1].sessionId = "s2"
    /\ Len(routed["hook"]) = 1 /\ routed["hook"][1].priority = "action"
    /\ routed["chat"] = << >> /\ routed["pager"] = << >>

\* the place of a blocker in the fixed order: CI, changes requested, review
\* required, merge conflicts, draft
blockerRank(b) ==
    CASE b \in {"CI is failing", "CI is pending", "CI is none", "CI is passing"} -> 1
      [] b = "Changes requested in review" -> 2
      [] b = "Review required" -> 3
      [] b = "Merge conflicts" -> 4
      [] b = "PR is still a draft" -> 5
      [] OTHER -> 0

\* C14: getMergeability returns mergeable = true exactly when it returns no
\* blockers; the blockers come in the fixed order, each for its own reason;
\* passing CI, APPROVED, MERGEABLE and no draft give mergeable and no blockers;
\* failing CI and CHANGES_REQUESTED give "CI is failing" and then "Changes
\* requested in review".
C14_MergeableIffNoBlockers ==
    readiness \notin {NoReadiness, Rejected}
    => LET b == readiness.blockers
           passed == [state |-> "COMPLETED", conclusion |-> "SUCCESS"]
           failed == [state |-> "COMPLETED", conclusion |-> "FAILURE"]
       IN  /\ readiness.mergeable <=> b = << >>
           /\ \A i, j \in 1..Len(b) : i < j => blockerRank(b[i]) < blockerRank(b[j])
           /\ \A i \in 1..Len(b) : blockerRank(b[i]) > 0
           /\ ciSummary \in {"failing", "pending"}
              <=> \E i \in 1..Len(b) : blockerRank(b[i]) = 1
           /\ prData.reviewDecision = "CHANGES_REQUESTED"
              <=> "Changes requested in review" \in Range(b)
           /\ prData.reviewDecision = "REVIEW_REQUIRED" <=> "Review required" \in Range(b)
           /\ prData.mergeable = "CONFLICTING" <=> "Merge conflicts" \in Range(b)
           /\ prData.isDraft <=> "PR is still a draft" \in Range(b)
           /\ (/\ ~prChecks.ghFails /\ prChecks.raw # << >>
               /\ Range(prChecks.raw) = {passed}
               /\ prData.reviewDecision = "APPROVED"
               /\ prData.mergeable = "MERGEABLE" /\ ~prData.isDraft)
              => readiness.mergeable /\ b = << >>
           /\ (/\ ~prChecks.ghFails /\ failed \in Range(prChecks.raw)
               /\ prData.reviewDecision = "CHANGES_REQUESTED")
              => /\ Len(b) >= 2
                 /\ b[1] = "CI is failing"
                 /\ b[2] = "Changes requested in review"

\* a draft with failing CI, changes requested and conflicts: four blockers, in
\* the fixed order
C14_Witness ==
    /\ ~readiness.mergeable
    /\ readiness.blockers = <<"CI is failing", "Changes requested in review",
                              "Merge conflicts", "PR is still a draft">>

\* C15: liveness comes first: a query of a session without runtimeHandle, or
\* whose process is not running, returns exited without looking at any further
\* evidence; evidence is looked at only after the handle and the liveness.
C15_LivenessBeforeEvidence ==
    /\ "evidence" \in Range(consulted)
       => /\ consulted = <<"handle", "liveness", "evidence">>
          /\ probeRunning = "true"
    /\ (probePc = "done" /\ (probe.kind = "none" \/ probeRunning = "false"))
       => /\ detection = "exited"
          /\ "evidence" \notin Range(consulted)

\* the aider session's tmux pane has no aider process: exited after the
\* liveness check, nothing else looked at
C15_Witness ==
    /\ probe = [agent |-> "aider", kind |-> "tmux", answer |-> "ps_nomatch"]
    /\ probePc = "done"
    /\ detection = "exited"
    /\ consulted = <<"handle", "liveness">>

\* C16: a lookup of a plugin that is not registered is an error the caller
\* sees, which states the slot and the requested name; it never yields null.
\* For the message endpoint: when the runtime plugin of the session's project
\* is not registered, registry.get does not return null and the response
\* states the runtime slot and the requested plugin name.
C16_UnregisteredLookupNamed ==
    response.lookup \in {"null", "throw"}
    => /\ response.lookup # "null"
       /\ slotNamedIn(response.error) = "runtime"
       /\ pluginNamedIn(response.error) = response.runtime

\* C17: `ao lifecycle check` for an id without session tells its caller
\* not-found, not Done; no event is emitted or routed and no session, check in
\* flight or outcome changes.
C17_MissingSessionNotFound ==
    [][cliRuns' = cliRuns + 1
       => /\ checkReport' = "not-found"
          /\ emitted' = emitted
          /\ lastEvent' = lastEvent
          /\ routed' = routed
          /\ lastKnownActivity' = lastKnownActivity
          /\ lastCheckedAt' = lastCheckedAt
          /\ outcome' = outcome
          /\ flight' = flight]_vars

\* the check of the missing session was reported not-found while a check of
\* s1 was in flight, after an earlier check of s1 had completed
C17_Witness ==
    /\ cliRuns = 1 /\ checkReport = "not-found"
    /\ InFlight("s1")
    /\ now = 1 /\ outcome["s1"].status # "none"

\* C18: lastKnownActivity and lastCheckedAt of a session change only when a
\* check of that session completes, and then for that session alone; a POST to
\* the message endpoint, the start of a check and a check of a missing session
\* change neither; the fields owned outside the core stay as they are and no
\* session is ever deleted.
C18_OnlyUpdateMutates ==
    [][/\ \A s \in SessionIds :
             (\/ lastKnownActivity'[s] # lastKnownActivity[s]
              \/ lastCheckedAt'[s] # lastCheckedAt[s])
             => /\ Completed(s)
                /\ response' = response
                /\ \A u \in SessionIds \ {s} :
                      /\ lastKnownActivity'[u] = lastKnownActivity[u]
                      /\ lastCheckedAt'[u] = lastCheckedAt[u]
       /\ DOMAIN lastKnownActivity' = SessionIds
       /\ DOMAIN lastCheckedAt' = SessionIds
       /\ runtimeHandle' = runtimeHandle
       /\ agentOfProject' = agentOfProject]_vars

\* a check took s1 from active to exited, a message was then sent to s1, and
\* s1 is still exited with the lastCheckedAt of that check; s2 is untouched
C18_Witness ==
    /\ response.sent /\ response.sessionId = "s1"
    /\ lastKnownActivity["s1"] = "exited" /\ lastCheckedAt["s1"] = 1
    /\ lastKnownActivity["s2"] = "active" /\ lastCheckedAt["s2"] = 0
    /\ now = 1

\* the names listed in some routing level or in defaults.notifiers
listedNames ==
    UNION {Range(routing[RoutingLevels[i]]) : i \in 1..Len(RoutingLevels)}
        \cup Range(defaultNotifiers)

\* the names the claim has `ao notify test` address: the one given with -n,
\* else the listed names, else every configured notifier
addressedNames ==
    IF optNotifier # "" THEN {optNotifier}
    ELSE IF listedNames = {} THEN cfgNotifiers
    ELSE listedNames

\* C19 as stated: at the end of a run every addressed name that has a config
\* entry got exactly one notify call, and every other name none.
C19_OnePerConfiguredName ==
    pc = "done"
    => \A n \in NotifierNames :
          notifyCalls[n] = IF n \in addressedNames \cap cfgNotifiers THEN 1 ELSE 0

\* C19: at the end of a run every addressed name that has a config entry and
\* whose plugin can be created was constructed once and got exactly one notify
\* call, with the priority of the run, however many levels list it; every
\* other name got none.
C19_OnePerCreatableName ==
    pc = "done"
    => /\ \A n \in NotifierNames :
             LET sent == IF /\ n \in addressedNames \cap cfgNotifiers
                            /\ createNotifier(n)
                         THEN 1 ELSE 0
             IN  notifyCalls[n] = sent /\ creates[n] = sent
       /\ notifiedPriority \in {"", optPriority}
       /\ notifiedPriority = "" <=> \A n \in NotifierNames : notifyCalls[n] = 0

\* hook and desktop are listed three times between them and each was notified
\* once; pager is configured with a plugin the CLI lacks and was not notified
C19_Witness ==
    /\ pc = "done"
    /\ optNotifier = ""
    /\ cfgNotifiers = NotifierNames
    /\ routing["urgent"] = <<"hook", "desktop">>
    /\ routing["action"] = <<"pager", "hook">>
    /\ defaultNotifiers = <<"desktop">>
    /\ notifyCalls = [n \in NotifierNames |->
                         IF n \in {"hook", "desktop"} THEN 1 ELSE 0]

\* C20: once the command ran with -n naming a notifier that has no config
\* entry, or with a priority outside urgent, action, warning, info, it has
\* exited with status 1 after an error message, no notifier was constructed,
\* no notify call and no fetch was made and no line of the loop was printed.
C20_BadOptionsExitEarly ==
    (/\ pc # "start"
     /\ \/ (optNotifier # "" /\ optNotifier \notin cfgNotifiers)
        \/ optPriority \notin VALID_PRIORITIES)
    => /\ pc = "exit1"
       /\ errorMessage \in {"Invalid priority", "No config found", "Unknown notifier"}
       /\ optPriority \notin VALID_PRIORITIES => errorMessage = "Invalid priority"
       /\ \A n \in NotifierNames : creates[n] = 0 /\ notifyCalls[n] = 0
       /\ results = << >>
       /\ fetches = << >>

\* -n pager was given on a configuration that has desktop and hook listed and
\* configured but no pager entry: the run ended with Unknown notifier
C20_Witness ==
    /\ pc = "exit1"
    /\ errorMessage = "Unknown notifier"
    /\ optNotifier = "pager"
    /\ cfgNotifiers = {"desktop", "hook"}
    /\ routing["action"] = <<"hook", "desktop">>
    /\ notifyCalls = [n \in NotifierNames |-> 0]

\* C21: a name without entry in config.notifiers is reported with the line
\* skip and only such names are; no plugin is constructed and no notify call
\* made for it; and when the run is through every resolved name, those after a
\* skipped one included, has its line.
C21_UnconfiguredSkipped ==
    /\ \A i \in 1..Len(results) :
          results[i][2] = "skip" <=> results[i][1] \notin cfgNotifiers
    /\ \A n \in NotifierNames \ cfgNotifiers : creates[n] = 0 /\ notifyCalls[n] = 0
    /\ pc = "done" => {results[i][1] : i \in 1..Len(results)} = Range(resolvedNames)

\* pager is listed for action but not configured: it was skipped, and hook,
\* listed after it, was constructed and notified
C21_Witness ==
    /\ pc = "done"
    /\ "pager" \notin cfgNotifiers
    /\ results = << <<"pager", "skip">>, <<"hook", "OK">> >>
    /\ creates["pager"] = 0 /\ notifyCalls["pager"] = 0
    /\ creates["hook"] = 1 /\ notifyCalls["hook"] = 1

\* C22: a query of the codex or opencode plugin that has returned gave exited
\* exactly when the session has no runtimeHandle or isProcessRunning resolved
\* to false, and null (unknown) otherwise; it never gave idle or active.
C22_ExitedOrUnknown ==
    (probe.agent \in {"codex", "opencode"} /\ probePc = "done")
    => /\ detection \in {"exited", "unknown"}
       /\ detection = "exited" <=> (probe.kind = "none" \/ probeRunning = "false")

\* the codex process is found in the pane of the session: the query went
\* through handle, liveness and evidence and returned null
C22_Witness ==
    /\ probe = [agent |-> "codex", kind |-> "tmux", answer |-> "ps_match"]
    /\ probePc = "done"
    /\ consulted = <<"handle", "liveness", "evidence">>
    /\ detection = "unknown"

\* C23: a method of a webhook notifier created without url, once called, has
\* returned (nothing for notify and notifyWithActions, null for post) without
\* a single fetch, whatever the event and whatever retries is.
C23_NoUrlNoRequest ==
    (~hook.url /\ hookPc # "created")
    => /\ hookPc = "returned"
       /\ hookResult = resultOf(hookCall.method)
       /\ hookFetches = << >>

\* notifyWithActions of a webhook without url and with retries 0, called with
\* an event whose timestamp cannot be serialized, returned without a fetch
C23_Witness ==
    /\ hook = [url |-> FALSE, retries |-> 0]
    /\ hookCall = [method |-> "notifyWithActions", timeValid |-> FALSE]
    /\ hookPc = "returned"
    /\ hookResult = "void"
    /\ hookFetches = << >>

C25_LivenessFailureIsExited ==
    probe.agent \in {"codex", "opencode"}
    => /\ probePc # "hung"
       /\ probeRunning \in {"true", "false"}
       /\ probe.answer \in FailureAnswers \cup HangAnswers
          => /\ probeRunning = "false"
             /\ probePc = "done"
                => /\ detection = "exited"
                   /\ consulted = <<"handle", "liveness">>
       /\ (probePc = "done" /\ probe.answer = "ps_nomatch")
          => /\ detection = "exited"
             /\ consulted = <<"handle", "liveness">>

\* ps did not answer within its timeout: the opencode query returned exited
C25_Witness ==
    /\ probe = [agent |-> "opencode", kind |-> "tmux", answer |-> "ps_hang"]
    /\ probePc = "done"
    /\ detection = "exited"

\* C26: the summary getCISummary returned is none exactly for an empty list of
\* checks, failing exactly when some check failed, whatever the others are,
\* pending exactly when none failed and some check is pending or running, and
\* passing exactly when there are checks and each is passed or skipped.
C26_SummaryOfChecks ==
    ciStatus # ""
    => LET st == Range(ciChecks)
       IN  /\ ciStatus \in {"none", "failing", "pending", "passing"}
           /\ ciStatus = "none" <=> ciChecks = << >>
           /\ ciStatus = "failing" <=> "failed" \in st
           /\ ciStatus = "pending"
              <=> ("failed" \notin st /\ st \cap {"pending", "running"} # {})
           /\ ciStatus = "passing"
              <=> (ciChecks # << >> /\ st \subseteq {"passed", "skipped"})

\* one check timed out and another is still running: the summary is failing
C26_Witness ==
    /\ prChecks.raw = << [state |-> "IN_PROGRESS", conclusion |-> ""],
                         [state |-> "COMPLETED", conclusion |-> "TIMED_OUT"] >>
    /\ ciChecks = <<"running", "failed">>
    /\ ciStatus = "failing"

\* C27: when `gh pr checks` fails, getCIChecks returned the empty list and
\* getCISummary none, whatever the checks are; getMergeability then has
\* ciPassing true and no CI blocker, and reports the pull request mergeable
\* exactly when review, conflicts and draft do not block it.
C27_UnreadableCIPasses ==
    (prChecks.ghFails /\ readiness \notin {NoReadiness, Rejected})
    => /\ ciChecks = << >>
       /\ ciStatus = "none"
       /\ readiness.ciPassing
       /\ \A i \in 1..Len(readiness.blockers) : blockerRank(readiness.blockers[i]) # 1
       /\ readiness.mergeable
          <=> /\ prData.reviewDecision \notin {"CHANGES_REQUESTED", "REVIEW_REQUIRED"}
              /\ prData.mergeable # "CONFLICTING"
              /\ ~prData.isDraft

\* the pull request has a failed check, but `gh pr checks` failed: approved and
\* without conflicts, it is reported mergeable
C27_Witness ==
    /\ prChecks.ghFails
    /\ prChecks.raw = << [state |-> "COMPLETED", conclusion |-> "FAILURE"] >>
    /\ prData = [mergeable |-> "MERGEABLE", reviewDecision |-> "APPROVED",
                 isDraft |-> FALSE]
    /\ ciStatus = "none"
    /\ readiness.ciPassing
    /\ readiness.mergeable

deliverable ==
    /\ request.parses
    /\ request.message # ""
    /\ request.id \in SessionIds
    /\ runtimeHandle[request.id] # "none"
    /\ projectRuntime[request.id] \notin {"missing", ""}
    /\ projectRuntime[request.id] \in runtimePlugins

\* C29: a request to the message endpoint calls runtime.sendMessage at most
\* once, and only when it can be delivered; it is answered by success only
\* after such a call that did not raise; a request that cannot be delivered,
\* or whose sendMessage raised, is answered by one error response with status
\* 400, 404 or 500.
C29_SendOnlyWhenDeliverable ==
    response # NoResponse
    => /\ response.calls \in {0, 1}
       /\ response.calls = 1 => deliverable
       /\ response.status \in {200, 400, 404, 500}
       /\ response.status = 200
          => /\ deliverable /\ response.calls = 1
             /\ response.error = "" /\ response.sent
       /\ (~deliverable \/ response.error = "Failed to send message")
          => /\ response.status \in {400, 404, 500}
             /\ response.error # ""
             /\ ~response.sent
       /\ response.status # 200 <=> response.error # ""

\* sendMessage was called for the session s1 and raised: the answer is 500
C29_Witness ==
    /\ request = [parses |-> TRUE, message |-> "go on", id |-> "s1"]
    /\ deliverable
    /\ response.calls = 1
    /\ response.status = 500
    /\ response.error = "Failed to send message"

====
